---- MODULE Spec2Model ----
(***************************************************************************)
(* A model of sidechain_cli/utils/config_file.py: the persisted registry   *)
(* of chains, witnesses and bridges, its liveness reconciliation on load,  *)
(* the name lookups, and the derivation of the XChainBridge descriptor.    *)
(*                                                                         *)
(* A JSON object is a TLA+ record (a function from keys to values).  A     *)
(* dataclass instance is [cls |-> class name, vals |-> the values of its   *)
(* fields in declaration order], so that from_dict (keyword binding) and   *)
(* asdict (field enumeration) are real conversions.  A currency descriptor *)
(* is the JSON string "XRP", written [text |-> "XRP"], or the JSON object  *)
(* [currency |-> c, issuer |-> i].                                         *)
(***************************************************************************)
EXTENDS Integers, Sequences, FiniteSets, TLC

VARIABLES
    file,        \* the content of _CONFIG_FILE
    pc,          \* per invocation: position in from_file / __init__ / command
    data,        \* per invocation: the document returned by json.load
    idx,         \* per invocation: loop position in _get_running_processes
    return_list, \* per invocation: return_list of _get_running_processes
    chains,      \* per invocation: self.chains
    witnesses,   \* per invocation: self.witnesses
    bridges,     \* per invocation: self.bridges
    result,      \* per invocation: outcome of the command run on the store
    err,         \* per invocation: the exception that ended it, or "none"
    responded,   \* history: per invocation, which probes got a response
    lastWriter,  \* history: the invocation that last opened the file for "w"
    overwritten  \* history: the file content replaced by the last write

vars == <<file, pc, data, idx, return_list, chains, witnesses, bridges,
          result, err, responded, lastWriter, overwritten>>

-----------------------------------------------------------------------------
(* Bounds of the model *)

MaxRecords == 3
MaxMalformed == 2
MaxRaceRecords == 1

Procs == {"cli1", "cli2"}
Main == "cli1"
Names == {"a", "b"}
Pids == {1, 2}

-----------------------------------------------------------------------------
(* Sequences *)

Range(s) == {s[i] : i \in 1..Len(s)}

IndexOf(s, x) == CHOOSE i \in 1..Len(s) : s[i] = x

SeqsUpTo(S, n) == UNION {[1..k -> S] : k \in 0..n}

-----------------------------------------------------------------------------
(* Record types: the dataclasses and from_dict / asdict *)

ServerConfigFields ==
    <<"name", "type", "pid", "exe", "config", "http_ip", "http_port">>

ChainConfigFields == ServerConfigFields \o <<"ws_ip", "ws_port">>

WitnessConfigFields == ServerConfigFields

BridgeConfigFields ==
    <<"name", "chains", "num_witnesses", "door_accounts",
      "xchain_currencies", "signature_reward", "create_account_amounts">>

\* xrpl.models.IssuedCurrency and xrpl.models.XChainBridge
IssuedCurrencyFields == <<"currency", "issuer">>

XChainBridgeFields ==
    <<"locking_chain_door", "locking_chain_issue",
      "issuing_chain_door", "issuing_chain_issue">>

FieldsOf(cls) ==
    CASE cls = "ChainConfig" -> ChainConfigFields
      [] cls = "WitnessConfig" -> WitnessConfigFields
      [] cls = "BridgeConfig" -> BridgeConfigFields
      [] cls = "IssuedCurrency" -> IssuedCurrencyFields
      [] cls = "XChainBridge" -> XChainBridgeFields

\* cls(**data) raises TypeError on an unexpected keyword and on a missing
\* required argument; no field of the three dataclasses has a default.
from_dict_raises(cls, d) == DOMAIN d # Range(FieldsOf(cls))

from_dict(cls, d) ==
    [cls |-> cls,
     vals |-> [i \in 1..Len(FieldsOf(cls)) |-> d[FieldsOf(cls)[i]]]]

Attr(obj, field) == obj.vals[IndexOf(FieldsOf(obj.cls), field)]

\* variant of asdict that exchanges the two endpoints of a chain
asdict_swapped(obj) ==
    [k \in Range(FieldsOf(obj.cls)) |->
        IF obj.cls = "ChainConfig" /\ k = "http_ip" THEN Attr(obj, "ws_ip")
        ELSE IF obj.cls = "ChainConfig" /\ k = "ws_ip" THEN Attr(obj, "http_ip")
        ELSE Attr(obj, k)]

asdict(obj) == [k \in Range(FieldsOf(obj.cls)) |-> Attr(obj, k)]

-----------------------------------------------------------------------------
(* Documents *)

XRP == [text |-> "XRP"]

ChainData(n, p) ==
    [name |-> n, type |-> "rippled", pid |-> p, exe |-> "rippled",
     config |-> "rippled.cfg", http_ip |-> "10.0.0.1", http_port |-> 5005,
     ws_ip |-> "10.0.0.2", ws_port |-> 6006]

WitnessData(n, p) ==
    [name |-> n, type |-> "witness", pid |-> p, exe |-> "witnessd",
     config |-> "witness.json", http_ip |-> "10.0.0.3", http_port |-> 6010]

BridgeData(n, doors, curs) ==
    [name |-> n, chains |-> <<"a", "b">>, num_witnesses |-> 1,
     door_accounts |-> doors, xchain_currencies |-> curs,
     signature_reward |-> "100", create_account_amounts |-> <<"10", "20">>]

USD == [currency |-> "USD", issuer |-> "rI1"]

EUR == [currency |-> "EUR", issuer |-> "rI2"]

ChainRecords == {ChainData(n, p) : n \in Names, p \in Pids}

WitnessRecords == {WitnessData(n, p) : n \in Names, p \in Pids}

BridgeRecords ==
    {BridgeData("a", <<"rA", "rB">>, <<XRP, XRP>>),
     BridgeData("b", <<"rA", "rB">>, <<USD, EUR>>)}

\* the document written at module import when no file exists
EmptyDocument == [chains |-> <<>>, witnesses |-> <<>>, bridges |-> <<>>]

Document(cs, ws, bs) == [chains |-> cs, witnesses |-> ws, bridges |-> bs]

Size(d) == Len(d.chains) + Len(d.witnesses) + Len(d.bridges)

DocumentsOver(C, W, B, n) ==
    UNION {{Document(cs, ws, bs) : cs \in [1..i -> C],
                                   ws \in [1..j -> W],
                                   bs \in [1..(k - i - j) -> B]} :
           <<i, j, k>> \in {t \in (0..n) \X (0..n) \X (0..n) : t[1] + t[2] <= t[3]}}

Documents == DocumentsOver(ChainRecords, WitnessRecords, BridgeRecords, MaxRecords)

\* a file that json.load rejects
Unparseable == [invalid_json |-> TRUE]

WellFormedDocument(d) ==
    /\ DOMAIN d = {"chains", "witnesses", "bridges"}
    /\ \A i \in 1..Len(d.chains) : ~from_dict_raises("ChainConfig", d.chains[i])
    /\ \A i \in 1..Len(d.witnesses) :
          ~from_dict_raises("WitnessConfig", d.witnesses[i])
    /\ \A i \in 1..Len(d.bridges) : ~from_dict_raises("BridgeConfig", d.bridges[i])

\* documents that do not have the expected shape
Without(r, f) == [k \in DOMAIN r \ {f} |-> r[k]]

WithExtra(r) == [k \in DOMAIN r \cup {"extra"} |-> IF k = "extra" THEN "x" ELSE r[k]]

ShapeChainRecords ==
    {ChainData("a", 1), Without(ChainData("b", 1), "pid"),
     WithExtra(ChainData("b", 1)), Without(ChainData("b", 1), "http_port")}

ShapeWitnessRecords ==
    {WitnessData("a", 1), Without(WitnessData("b", 1), "config"),
     WithExtra(WitnessData("b", 1))}

ShapeBridgeRecords ==
    {BridgeData("a", <<"rA", "rB">>, <<XRP, XRP>>),
     Without(BridgeData("b", <<"rA", "rB">>, <<USD, EUR>>), "chains"),
     WithExtra(BridgeData("b", <<"rA", "rB">>, <<USD, EUR>>))}

ShapeDocuments ==
    LET ds == DocumentsOver(ShapeChainRecords, ShapeWitnessRecords,
                            ShapeBridgeRecords, MaxMalformed)
    IN  ds \cup {Without(d, k) : d \in ds, k \in {"chains", "witnesses", "bridges"}}
           \cup {Unparseable}

\* documents of the two-invocation runs
RaceDocuments ==
    DocumentsOver({ChainData("a", 1)}, {WitnessData("a", 1)}, {}, MaxRaceRecords)

\* documents with one bridge, for the derivation of the bridge descriptor
Doors == {"rA", "rB"}

Currencies == {XRP, USD, EUR}

BridgeDocuments ==
    {Document(<<>>, <<>>, <<BridgeData("a", ds, cs)>>) :
        ds \in Doors \X Doors, cs \in Currencies \X Currencies}

-----------------------------------------------------------------------------
(* The state of an invocation *)

NoData == [none |-> TRUE]

NoResult == [op |-> "none"]

NoProbes == [chains |-> <<>>, witnesses |-> <<>>]

Fresh ==
    /\ pc = [p \in Procs |-> "idle"]
    /\ data = [p \in Procs |-> NoData]
    /\ idx = [p \in Procs |-> 0]
    /\ return_list = [p \in Procs |-> <<>>]
    /\ chains = [p \in Procs |-> <<>>]
    /\ witnesses = [p \in Procs |-> <<>>]
    /\ bridges = [p \in Procs |-> <<>>]
    /\ result = [p \in Procs |-> NoResult]
    /\ err = [p \in Procs |-> "none"]
    /\ responded = [p \in Procs |-> NoProbes]
    /\ lastWriter = "nobody"
    /\ overwritten = NoData

Init == file \in Documents /\ Fresh

-----------------------------------------------------------------------------
(* The RPC probe *)

Responses == {"http_200", "http_500"}

CaughtErrors == {"ConnectError", "RemoteProtocolError", "ReadError", "WriteError"}

\* httpx.post raises these too (the timeouts after httpx's default 5 seconds);
\* they are transport errors outside the except clause.
UncaughtErrors == {"ConnectTimeout", "ReadTimeout"}

ProbeOutcomes == Responses \cup CaughtErrors \cup UncaughtErrors

\* variant of post_returns that also keeps a server that refused the connection
post_returns_or_refused(outcome) == outcome \in Responses \cup {"ConnectError"}

\* httpx.post returns for any HTTP response, whatever its status
post_returns(outcome) == outcome \in Responses

except_clause(outcome) == outcome \in CaughtErrors

-----------------------------------------------------------------------------
(* ConfigFile *)

Self(p) == [chains |-> chains[p], witnesses |-> witnesses[p], bridges |-> bridges[p]]

to_dict(self) ==
    [chains |-> [i \in 1..Len(self.chains) |-> asdict(self.chains[i])],
     witnesses |-> [i \in 1..Len(self.witnesses) |-> asdict(self.witnesses[i])],
     bridges |-> [i \in 1..Len(self.bridges) |-> asdict(self.bridges[i])]]

\* variant of write_to_file that writes only over the document it read
write_to_file_if_unchanged(p, self) ==
    /\ file' = IF file = data[p] THEN to_dict(self) ELSE file
    /\ lastWriter' = p
    /\ overwritten' = file

write_to_file(p, self) ==
    /\ file' = to_dict(self)
    /\ lastWriter' = p
    /\ overwritten' = file

\* An exception leaves from_file: no ConfigFile object is returned and the
\* file has not been opened for writing.
Raise(p, e) ==
    /\ pc' = [pc EXCEPT ![p] = "failed"]
    /\ err' = [err EXCEPT ![p] = e]
    /\ idx' = [idx EXCEPT ![p] = 0]
    /\ return_list' = [return_list EXCEPT ![p] = <<>>]
    /\ chains' = [chains EXCEPT ![p] = <<>>]
    /\ witnesses' = [witnesses EXCEPT ![p] = <<>>]
    /\ bridges' = [bridges EXCEPT ![p] = <<>>]
    /\ UNCHANGED <<file, data, result, responded, lastWriter, overwritten>>

from_file(p) ==
    /\ pc[p] = "idle"
    /\ IF file = Unparseable
       THEN Raise(p, "JSONDecodeError")
       ELSE IF "chains" \notin DOMAIN file
       THEN /\ pc' = [pc EXCEPT ![p] = "failed"]
            /\ err' = [err EXCEPT ![p] = "KeyError"]
            /\ data' = [data EXCEPT ![p] = file]
            /\ UNCHANGED <<file, idx, return_list, chains, witnesses, bridges,
                           result, responded, lastWriter, overwritten>>
       ELSE /\ pc' = [pc EXCEPT ![p] = "probe_chains"]
            /\ data' = [data EXCEPT ![p] = file]
            /\ idx' = [idx EXCEPT ![p] = 1]
            /\ return_list' = [return_list EXCEPT ![p] = <<>>]
            /\ UNCHANGED <<file, chains, witnesses, bridges, result, err,
                           responded, lastWriter, overwritten>>

\* one iteration of the loop of _get_running_processes over data[key]
get_running_processes_step(p, key, outcome) ==
    LET server == data[p][key][idx[p]] IN
    IF ~({"http_ip", "http_port"} \subseteq DOMAIN server)
    THEN Raise(p, "KeyError")
    ELSE IF post_returns(outcome)
    THEN /\ return_list' = [return_list EXCEPT ![p] = Append(@, server)]
         /\ idx' = [idx EXCEPT ![p] = @ + 1]
         /\ responded' = [responded EXCEPT ![p][key] = Append(@, outcome \in Responses)]
         /\ UNCHANGED <<file, pc, data, chains, witnesses, bridges, result, err,
                        lastWriter, overwritten>>
    ELSE IF except_clause(outcome)
    THEN /\ idx' = [idx EXCEPT ![p] = @ + 1]
         /\ responded' = [responded EXCEPT ![p][key] = Append(@, FALSE)]
         /\ UNCHANGED <<file, pc, data, return_list, chains, witnesses, bridges,
                        result, err, lastWriter, overwritten>>
    ELSE Raise(p, outcome)

ProbeChain(p, outcome) ==
    /\ pc[p] = "probe_chains"
    /\ idx[p] <= Len(data[p].chains)
    /\ get_running_processes_step(p, "chains", outcome)

load_chains(servers) ==
    [i \in 1..Len(servers) |-> from_dict("ChainConfig", servers[i])]

\* self.chains = [...]; then _get_running_processes(data["witnesses"]) starts
ChainsDone(p) ==
    /\ pc[p] = "probe_chains"
    /\ idx[p] > Len(data[p].chains)
    /\ IF \E i \in 1..Len(return_list[p]) :
             from_dict_raises("ChainConfig", return_list[p][i])
       THEN Raise(p, "TypeError")
       ELSE IF "witnesses" \notin DOMAIN data[p]
       THEN Raise(p, "KeyError")
       ELSE /\ chains' = [chains EXCEPT ![p] = load_chains(return_list[p])]
            /\ pc' = [pc EXCEPT ![p] = "probe_witnesses"]
            /\ idx' = [idx EXCEPT ![p] = 1]
            /\ return_list' = [return_list EXCEPT ![p] = <<>>]
            /\ UNCHANGED <<file, data, witnesses, bridges, result, err,
                           responded, lastWriter, overwritten>>

ProbeWitness(p, outcome) ==
    /\ pc[p] = "probe_witnesses"
    /\ idx[p] <= Len(data[p].witnesses)
    /\ get_running_processes_step(p, "witnesses", outcome)

load_witnesses(servers) ==
    [i \in 1..Len(servers) |-> from_dict("WitnessConfig", servers[i])]

\* variant of load_bridges that loses the first bridge
load_bridges_skip_first(bs) ==
    [i \in 1..(Len(bs) - 1) |-> from_dict("BridgeConfig", bs[i + 1])]

load_bridges(bs) ==
    [i \in 1..Len(bs) |-> from_dict("BridgeConfig", bs[i])]

\* self.witnesses = [...]; self.bridges = [...]; self.write_to_file()
WitnessesDone(p) ==
    /\ pc[p] = "probe_witnesses"
    /\ idx[p] > Len(data[p].witnesses)
    /\ IF \E i \in 1..Len(return_list[p]) :
             from_dict_raises("WitnessConfig", return_list[p][i])
       THEN Raise(p, "TypeError")
       ELSE IF "bridges" \notin DOMAIN data[p]
       THEN Raise(p, "KeyError")
       ELSE IF \E i \in 1..Len(data[p].bridges) :
                  from_dict_raises("BridgeConfig", data[p].bridges[i])
       THEN Raise(p, "TypeError")
       ELSE /\ witnesses' = [witnesses EXCEPT ![p] = load_witnesses(return_list[p])]
            /\ bridges' = [bridges EXCEPT ![p] = load_bridges(data[p].bridges)]
            /\ write_to_file(p, [chains |-> chains[p],
                                 witnesses |-> witnesses'[p],
                                 bridges |-> bridges'[p]])
            /\ pc' = [pc EXCEPT ![p] = "ready"]
            /\ idx' = [idx EXCEPT ![p] = 0]
            /\ return_list' = [return_list EXCEPT ![p] = <<>>]
            /\ UNCHANGED <<data, chains, result, err, responded>>

\* the process of the invocation ends; its ConfigFile object is gone
Exit(p) ==
    /\ pc[p] \in {"ready", "done", "failed"}
    /\ pc' = [pc EXCEPT ![p] = "idle"]
    /\ data' = [data EXCEPT ![p] = NoData]
    /\ idx' = [idx EXCEPT ![p] = 0]
    /\ return_list' = [return_list EXCEPT ![p] = <<>>]
    /\ chains' = [chains EXCEPT ![p] = <<>>]
    /\ witnesses' = [witnesses EXCEPT ![p] = <<>>]
    /\ bridges' = [bridges EXCEPT ![p] = <<>>]
    /\ result' = [result EXCEPT ![p] = NoResult]
    /\ err' = [err EXCEPT ![p] = "none"]
    /\ responded' = [responded EXCEPT ![p] = NoProbes]
    /\ lastWriter' = IF lastWriter = p THEN "nobody" ELSE lastWriter
    /\ overwritten' = IF lastWriter = p THEN NoData ELSE overwritten
    /\ UNCHANGED file

-----------------------------------------------------------------------------
(* Lookups by name *)

Returned(v) == [ok |-> TRUE, value |-> v, message |-> <<>>]

\* raise SidechainCLIException(f"No {category} with name {name}.")
Raised(category, name) ==
    [ok |-> FALSE, value |-> NoData,
     message |-> <<"No ", category, " with name ", name, ".">>]

\* for item in items: if item.name == name: return item
RECURSIVE Scan(_, _)
Scan(items, name) ==
    IF items = <<>> THEN <<>>
    ELSE IF Attr(Head(items), "name") = name THEN <<Head(items)>>
    ELSE Scan(Tail(items), name)

\* the last item of that name
RECURSIVE ScanLast(_, _)
ScanLast(items, name) ==
    IF items = <<>> THEN <<>>
    ELSE IF Attr(items[Len(items)], "name") = name THEN <<items[Len(items)]>>
    ELSE ScanLast(SubSeq(items, 1, Len(items) - 1), name)

\* variant of get_chain that returns the last match
get_chain_last(self, name) ==
    LET m == ScanLast(self.chains, name)
    IN  IF m # <<>> THEN Returned(m[1]) ELSE Raised("chain", name)

\* variant of get_chain that falls back to the witnesses
get_chain_any(self, name) ==
    LET m == Scan(self.chains \o self.witnesses, name)
    IN  IF m # <<>> THEN Returned(m[1]) ELSE Raised("chain", name)

get_chain(self, name) ==
    LET m == Scan(self.chains, name)
    IN  IF m # <<>> THEN Returned(m[1]) ELSE Raised("chain", name)

get_witness(self, name) ==
    LET m == Scan(self.witnesses, name)
    IN  IF m # <<>> THEN Returned(m[1]) ELSE Raised("witness", name)

\* variant of get_server that scans the witnesses first
get_server_witnesses_first(self, name) ==
    LET w == Scan(self.witnesses, name)
        c == Scan(self.chains, name)
    IN  IF w # <<>> THEN Returned(w[1])
        ELSE IF c # <<>> THEN Returned(c[1])
        ELSE Raised("server", name)

get_server(self, name) ==
    LET c == Scan(self.chains, name)
        w == Scan(self.witnesses, name)
    IN  IF c # <<>> THEN Returned(c[1])
        ELSE IF w # <<>> THEN Returned(w[1])
        ELSE Raised("server", name)

get_bridge(self, name) ==
    LET m == Scan(self.bridges, name)
    IN  IF m # <<>> THEN Returned(m[1]) ELSE Raised("bridge", name)

Outcome(op, name, r) ==
    [op |-> op, name |-> name, ok |-> r.ok, value |-> r.value,
     message |-> r.message]

\* a command that looks a name up in the loaded store
Command(p, r) ==
    /\ pc[p] = "ready"
    /\ pc' = [pc EXCEPT ![p] = "done"]
    /\ result' = [result EXCEPT ![p] = r]
    /\ UNCHANGED <<file, data, idx, return_list, chains, witnesses, bridges,
                   err, responded, lastWriter, overwritten>>

GetChain(p, name) == Command(p, Outcome("get_chain", name, get_chain(Self(p), name)))

GetWitness(p, name) ==
    Command(p, Outcome("get_witness", name, get_witness(Self(p), name)))

GetServer(p, name) ==
    Command(p, Outcome("get_server", name, get_server(Self(p), name)))

GetBridge(p, name) ==
    Command(p, Outcome("get_bridge", name, get_bridge(Self(p), name)))

-----------------------------------------------------------------------------
(* Registration: append the record to its collection and persist *)

Registered(p, op, obj, self) ==
    /\ pc[p] = "ready"
    /\ chains' = [chains EXCEPT ![p] = self.chains]
    /\ witnesses' = [witnesses EXCEPT ![p] = self.witnesses]
    /\ bridges' = [bridges EXCEPT ![p] = self.bridges]
    /\ write_to_file(p, self)
    /\ pc' = [pc EXCEPT ![p] = "done"]
    /\ result' = [result EXCEPT ![p] =
                     Outcome(op, Attr(obj, "name"), Returned(obj))]
    /\ UNCHANGED <<data, idx, return_list, err, responded>>

RegisterChain(p, record) ==
    LET obj == from_dict("ChainConfig", record)
    IN  Registered(p, "register_chain", obj,
                   [Self(p) EXCEPT !.chains = Append(@, obj)])

RegisterWitness(p, record) ==
    LET obj == from_dict("WitnessConfig", record)
    IN  Registered(p, "register_witness", obj,
                   [Self(p) EXCEPT !.witnesses = Append(@, obj)])

RegisterBridge(p, record) ==
    LET obj == from_dict("BridgeConfig", record)
    IN  Registered(p, "register_bridge", obj,
                   [Self(p) EXCEPT !.bridges = Append(@, obj)])

-----------------------------------------------------------------------------
(* BridgeConfig: the protocol-level bridge descriptor *)

to_issued_currency(xchain_currency) ==
    IF xchain_currency = XRP
    THEN XRP
    ELSE from_dict("IssuedCurrency", xchain_currency)

\* variant of get_bridge that exchanges the two issues
BridgeConfig_get_bridge_swapped(self) ==
    LET locking_chain_issue == to_issued_currency(Attr(self, "xchain_currencies")[2])
        issuing_chain_issue == to_issued_currency(Attr(self, "xchain_currencies")[1])
    IN  from_dict("XChainBridge",
            [locking_chain_door |-> Attr(self, "door_accounts")[1],
             locking_chain_issue |-> locking_chain_issue,
             issuing_chain_door |-> Attr(self, "door_accounts")[2],
             issuing_chain_issue |-> issuing_chain_issue])

BridgeConfig_get_bridge(self) ==
    LET locking_chain_issue == to_issued_currency(Attr(self, "xchain_currencies")[1])
        issuing_chain_issue == to_issued_currency(Attr(self, "xchain_currencies")[2])
    IN  from_dict("XChainBridge",
            [locking_chain_door |-> Attr(self, "door_accounts")[1],
             locking_chain_issue |-> locking_chain_issue,
             issuing_chain_door |-> Attr(self, "door_accounts")[2],
             issuing_chain_issue |-> issuing_chain_issue])

to_xrpl(self) ==
    LET locking_chain_issue == to_issued_currency(Attr(self, "xchain_currencies")[1])
        issuing_chain_issue == to_issued_currency(Attr(self, "xchain_currencies")[2])
    IN  [LockingChainDoor |-> Attr(self, "door_accounts")[1],
         LockingChainIssue |-> locking_chain_issue,
         IssuingChainDoor |-> Attr(self, "door_accounts")[2],
         IssuingChainIssue |-> issuing_chain_issue]

\* commands that derive the descriptor of the i-th bridge of the store
GetXChainBridge(p, i) ==
    /\ i \in 1..Len(bridges[p])
    /\ Command(p, Outcome("BridgeConfig.get_bridge", Attr(bridges[p][i], "name"),
                          Returned(BridgeConfig_get_bridge(bridges[p][i]))))

ToXrpl(p, i) ==
    /\ i \in 1..Len(bridges[p])
    /\ Command(p, Outcome("BridgeConfig.to_xrpl", Attr(bridges[p][i], "name"),
                          Returned(to_xrpl(bridges[p][i]))))

-----------------------------------------------------------------------------
(* One invocation at a time *)

Load(p) ==
    \/ from_file(p)
    \/ \E o \in ProbeOutcomes : ProbeChain(p, o)
    \/ ChainsDone(p)
    \/ \E o \in ProbeOutcomes : ProbeWitness(p, o)
    \/ WitnessesDone(p)

Lookup(p) ==
    \E name \in Names :
        \/ GetChain(p, name)
        \/ GetWitness(p, name)
        \/ GetServer(p, name)
        \/ GetBridge(p, name)

Register(p) ==
    \/ \E r \in ChainRecords : RegisterChain(p, r)
    \/ \E r \in WitnessRecords : RegisterWitness(p, r)
    \/ \E r \in BridgeRecords : RegisterBridge(p, r)

Next ==
    \/ Load(Main)
    \/ Lookup(Main)
    \/ Size(Self(Main)) < MaxRecords /\ Register(Main)
    \/ Exit(Main)

Spec == Init /\ [][Next]_vars

-----------------------------------------------------------------------------
(* Documents that do not have the expected shape *)

InitShape == file \in ShapeDocuments /\ Fresh

NextShape ==
    \/ Load(Main)
    \/ Exit(Main)

SpecShape == InitShape /\ [][NextShape]_vars

-----------------------------------------------------------------------------
(* The bridge descriptor *)

InitBridge == file \in BridgeDocuments /\ Fresh

NextBridge ==
    \/ from_file(Main)
    \/ ChainsDone(Main)
    \/ WitnessesDone(Main)
    \/ GetXChainBridge(Main, 1)
    \/ ToXrpl(Main, 1)
    \/ Exit(Main)

SpecBridge == InitBridge /\ [][NextBridge]_vars

-----------------------------------------------------------------------------
(* Two invocations that interleave their steps *)

InitRace == file \in RaceDocuments /\ Fresh

RaceRegister(p) ==
    \/ RegisterChain(p, ChainData("b", 1))
    \/ RegisterWitness(p, WitnessData("b", 1))

NextRace ==
    \E p \in Procs :
        \/ Load(p)
        \/ Size(Self(p)) < MaxRaceRecords /\ RaceRegister(p)
        \/ Exit(p)

SpecRace == InitRace /\ [][NextRace]_vars

-----------------------------------------------------------------------------
(* Properties of load() *)

\* the records of a list whose probe got a response, in the order of the list
RECURSIVE Kept(_, _)
Kept(servers, alive) ==
    IF servers = <<>> THEN <<>>
    ELSE (IF Head(alive) THEN <<Head(servers)>> ELSE <<>>)
            \o Kept(Tail(servers), Tail(alive))

\* the objects of a collection carry, field by field, the values of the records
Holds(collection, records) ==
    /\ Len(collection) = Len(records)
    /\ \A i \in 1..Len(collection) :
           \A k \in DOMAIN records[i] : Attr(collection[i], k) = records[i][k]

AllResponded(p) ==
    /\ \A i \in 1..Len(responded[p].chains) : responded[p].chains[i]
    /\ \A i \in 1..Len(responded[p].witnesses) : responded[p].witnesses[i]

\* C1: when load() completes, every chain and witness of the document has been
\* probed once, self.chains and self.witnesses hold exactly the records whose
\* probe got a response, in document order, and the file holds exactly those;
\* load() on a well-formed document fails only when a probe raised an error
\* that is neither a response nor one of the four caught transport errors.
C1_LoadPrunesDead ==
    /\ pc[Main] = "ready" =>
        /\ Len(responded[Main].chains) = Len(data[Main].chains)
        /\ Len(responded[Main].witnesses) = Len(data[Main].witnesses)
        /\ Holds(chains[Main], Kept(data[Main].chains, responded[Main].chains))
        /\ Holds(witnesses[Main],
                 Kept(data[Main].witnesses, responded[Main].witnesses))
        /\ file.chains = Kept(data[Main].chains, responded[Main].chains)
        /\ file.witnesses = Kept(data[Main].witnesses, responded[Main].witnesses)
    /\ pc[Main] = "failed" => err[Main] \in UncaughtErrors

C1_Witness ==
    /\ pc[Main] = "ready"
    /\ Len(data[Main].chains) = 2
    /\ responded[Main].chains = <<FALSE, TRUE>>
    /\ file.chains = <<data[Main].chains[2]>>
    /\ Len(data[Main].witnesses) = 1
    /\ responded[Main].witnesses = <<FALSE>>
    /\ file.witnesses = <<>>

\* C2: when every chain and witness of the document read got a response,
\* to_dict() of the loaded store is the document read, record for record and
\* in the same order, and the file written by load() is that document again.
C2_RoundTrip ==
    (pc[Main] = "ready" /\ AllResponded(Main)) =>
        /\ to_dict(Self(Main)) = data[Main]
        /\ file = data[Main]

C2_Witness ==
    /\ pc[Main] = "ready"
    /\ AllResponded(Main)
    /\ Len(data[Main].chains) = 1
    /\ Len(data[Main].witnesses) = 1
    /\ Len(data[Main].bridges) = 1
    /\ file = data[Main]

\* C3: no failure of a probe ends load() with an error.
C3_ProbeNeverRaises == pc[Main] = "failed" => err[Main] \notin ProbeOutcomes

\* C7: when load() completes, self.bridges and the bridges of the file are the
\* bridges of the document read, in content and order, whatever the probes
\* answered, and only the chains and the witnesses were probed.
C7_BridgesPassThrough ==
    pc[Main] = "ready" =>
        /\ Holds(bridges[Main], data[Main].bridges)
        /\ file.bridges = data[Main].bridges
        /\ Len(responded[Main].chains) + Len(responded[Main].witnesses)
              = Len(data[Main].chains) + Len(data[Main].witnesses)

C7_Witness ==
    /\ pc[Main] = "ready"
    /\ Len(data[Main].bridges) = 1
    /\ Len(data[Main].chains) = 2
    /\ \A i \in 1..2 :
          /\ data[Main].chains[i].name = data[Main].bridges[1].chains[i]
          /\ ~responded[Main].chains[i]
    /\ chains[Main] = <<>>
    /\ file.bridges = data[Main].bridges

-----------------------------------------------------------------------------
(* Properties of the lookups *)

Named(collection, name) ==
    {i \in 1..Len(collection) : Attr(collection[i], "name") = name}

NotFound(r, category) ==
    /\ ~r.ok
    /\ r.message = <<"No ", category, " with name ", r.name, ".">>

\* the lookup r answered from the collection alone
Answers(r, collection, cls, category) ==
    IF Named(collection, r.name) # {}
    THEN /\ r.ok
         /\ r.value.cls = cls
         /\ Attr(r.value, "name") = r.name
         /\ \E i \in 1..Len(collection) : collection[i] = r.value
    ELSE NotFound(r, category)

\* C4: get_chain(x) returns an element of self.chains named x when there is
\* one and otherwise raises "No chain with name x.", whatever self.witnesses
\* and self.bridges hold; likewise get_witness over self.witnesses and
\* get_bridge over self.bridges.
C4_LookupPerCollection ==
    pc[Main] = "done" =>
        /\ result[Main].op = "get_chain" =>
              Answers(result[Main], chains[Main], "ChainConfig", "chain")
        /\ result[Main].op = "get_witness" =>
              Answers(result[Main], witnesses[Main], "WitnessConfig", "witness")
        /\ result[Main].op = "get_bridge" =>
              Answers(result[Main], bridges[Main], "BridgeConfig", "bridge")

C4_Witness ==
    /\ pc[Main] = "done"
    /\ result[Main].op = "get_chain"
    /\ NotFound(result[Main], "chain")
    /\ Named(witnesses[Main], result[Main].name) # {}
    /\ Named(bridges[Main], result[Main].name) # {}
    /\ chains[Main] # <<>>

\* C5: get_server(x) returns a chain named x when self.chains has one, also
\* when a witness is named x; otherwise a witness named x when there is one;
\* otherwise it raises "No server with name x.", whatever self.bridges holds.
C5_ServerChainsFirst ==
    (pc[Main] = "done" /\ result[Main].op = "get_server") =>
        IF Named(chains[Main], result[Main].name) # {}
        THEN Answers(result[Main], chains[Main], "ChainConfig", "server")
        ELSE Answers(result[Main], witnesses[Main], "WitnessConfig", "server")

C5_Witness ==
    /\ pc[Main] = "done"
    /\ result[Main].op = "get_server"
    /\ Named(chains[Main], result[Main].name) # {}
    /\ Named(witnesses[Main], result[Main].name) # {}
    /\ result[Main].value.cls = "ChainConfig"

CollectionOf(p, op) ==
    CASE op \in {"get_chain", "register_chain"} -> chains[p]
      [] op \in {"get_witness", "register_witness"} -> witnesses[p]
      [] op \in {"get_bridge", "register_bridge"} -> bridges[p]
      [] op = "get_server" -> chains[p] \o witnesses[p]

Lookups == {"get_chain", "get_witness", "get_server", "get_bridge"}

Registrations == {"register_chain", "register_witness", "register_bridge"}

\* C9: a registration appends its record to the collection and the file also
\* when the collection already holds that name; a load keeps every entry whose
\* probe got a response, duplicates included; and a lookup that finds a name
\* returns the first entry of that name in the order of the collection.
C9_DuplicatesFirstMatch ==
    /\ (pc[Main] = "done" /\ result[Main].op \in Registrations) =>
          LET c == CollectionOf(Main, result[Main].op)
              f == to_dict(Self(Main))
          IN  /\ c[Len(c)] = result[Main].value
              /\ file = f
              /\ Size(file) = Size(overwritten) + 1
    /\ pc[Main] = "ready" =>
          /\ Len(chains[Main]) =
                Cardinality({i \in 1..Len(data[Main].chains) :
                                responded[Main].chains[i]})
          /\ Len(witnesses[Main]) =
                Cardinality({i \in 1..Len(data[Main].witnesses) :
                                responded[Main].witnesses[i]})
    /\ (pc[Main] = "done" /\ result[Main].op \in Lookups /\ result[Main].ok) =>
          LET c == CollectionOf(Main, result[Main].op)
          IN  \E i \in Named(c, result[Main].name) :
                 /\ c[i] = result[Main].value
                 /\ \A j \in Named(c, result[Main].name) : i <= j

C9_Witness ==
    /\ pc[Main] = "done"
    /\ result[Main].op = "get_chain"
    /\ Len(chains[Main]) = 2
    /\ Named(chains[Main], result[Main].name) = {1, 2}
    /\ chains[Main][1] # chains[Main][2]
    /\ result[Main].value = chains[Main][1]
    /\ file.chains = data[Main].chains

-----------------------------------------------------------------------------
(* Documents that do not have the expected shape *)

\* C6: a document that is unreadable or not of the expected shape never
\* yields a store, and the file stays as it was read.
C6_MalformedRejected ==
    /\ file = Unparseable => pc[Main] \in {"idle", "failed"}
    /\ (data[Main] # NoData /\ ~WellFormedDocument(data[Main])) =>
          /\ pc[Main] \notin {"ready", "done"}
          /\ file = data[Main]

-----------------------------------------------------------------------------
(* Properties of the bridge descriptor *)

\* the issue derived from the currency descriptor c of the record
IssueOf(c, issue) ==
    IF c = XRP
    THEN issue = XRP
    ELSE /\ issue.cls = "IssuedCurrency"
         /\ Attr(issue, "currency") = c.currency
         /\ Attr(issue, "issuer") = c.issuer

\* C8: the descriptor of a bridge has the door of index 0 of door_accounts as
\* locking door and that of index 1 as issuing door, and its locking issue is
\* derived from index 0 of xchain_currencies and its issuing issue from index
\* 1: "XRP" stays "XRP", a {currency, issuer} pair keeps its currency and its
\* issuer, each side on its own; get_bridge and to_xrpl agree on this.
C8_DescriptorKeepsSides ==
    pc[Main] = "done" =>
        LET b == data[Main].bridges[1]
            d == result[Main].value
        IN  /\ result[Main].op = "BridgeConfig.get_bridge" =>
                  /\ Attr(d, "locking_chain_door") = b.door_accounts[1]
                  /\ Attr(d, "issuing_chain_door") = b.door_accounts[2]
                  /\ IssueOf(b.xchain_currencies[1], Attr(d, "locking_chain_issue"))
                  /\ IssueOf(b.xchain_currencies[2], Attr(d, "issuing_chain_issue"))
            /\ result[Main].op = "BridgeConfig.to_xrpl" =>
                  /\ d.LockingChainDoor = b.door_accounts[1]
                  /\ d.IssuingChainDoor = b.door_accounts[2]
                  /\ IssueOf(b.xchain_currencies[1], d.LockingChainIssue)
                  /\ IssueOf(b.xchain_currencies[2], d.IssuingChainIssue)

C8_Witness ==
    /\ pc[Main] = "done"
    /\ result[Main].op = "BridgeConfig.get_bridge"
    /\ data[Main].bridges[1].door_accounts = <<"rA", "rB">>
    /\ data[Main].bridges[1].xchain_currencies = <<XRP, USD>>
    /\ Attr(result[Main].value, "locking_chain_issue") = XRP
    /\ Attr(Attr(result[Main].value, "issuing_chain_issue"), "issuer") = "rI1"

-----------------------------------------------------------------------------
(* Properties of two interleaved invocations *)

\* C10: the file is always the whole to_dict() of the store of the invocation
\* that wrote last, whatever the file held when that invocation wrote and
\* whatever the other invocation wrote since the writer read; the write is
\* made without an error.
C10_LastWriteWins ==
    lastWriter \in Procs =>
        /\ pc[lastWriter] \in {"ready", "done"}
        /\ err[lastWriter] = "none"
        /\ file = to_dict(Self(lastWriter))

\* the write of a load() dropped a record that the other invocation had
\* registered after the read of that load()
C10_Witness ==
    \E p \in Procs :
        /\ lastWriter = p
        /\ pc[p] = "ready"
        /\ overwritten # data[p]
        /\ file = data[p]
        /\ \E i \in 1..Len(overwritten.chains) :
              /\ overwritten.chains[i] \notin Range(data[p].chains)
              /\ overwritten.chains[i] \notin Range(file.chains)
        /\ \E q \in Procs \ {p} :
              /\ pc[q] = "done"
              /\ result[q].op = "register_chain"
              /\ to_dict(Self(q)) = overwritten

====
